---- MODULE Spec2Model ----
(***************************************************************************)
(* Student attendance & progress tracker (src/app.py): the relational      *)
(* store, the request handlers and the two aggregation helpers.            *)
(*                                                                         *)
(* Every table is a sequence of rows whose primary key is the row's        *)
(* position (SQLite autoincrement, the code never deletes a row).  A       *)
(* request is handled by a worker p; a handler that only reads, or that    *)
(* reads nothing before its single commit, is one action; a handler whose  *)
(* commit depends on an earlier read (register, admin_setup,               *)
(* mark_attendance) is one action per store round trip, so that two        *)
(* workers interleave between the read and the write.                      *)
(***************************************************************************)
EXTENDS Integers, Sequences, FiniteSets, TLC

VARIABLES users, students, teachers, parents, attendance, progress,
          threaded, writer, pc, req, loc, resp, nreq

store == <<users, students, teachers, parents, attendance, progress>>
vars == <<users, students, teachers, parents, attendance, progress,
          threaded, writer, pc, req, loc, resp, nreq>>

(***************************************************************************)
(* Bounds of the exploration.                                              *)
(***************************************************************************)
MaxRequests == 2

\* two workers: every race of the handlers is a race of two requests
Procs == {1, 2}

(***************************************************************************)
(* Values.  NoId is SQL NULL / Python None for a key, None is Python None  *)
(* for a float column.  A float is kept as an exact fraction <<n, d>> in   *)
(* lowest terms with d > 0.                                                *)
(***************************************************************************)
NoId == 0
None == <<>>

Abs(x) == IF x < 0 THEN -x ELSE x

RECURSIVE GCD(_, _)
GCD(a, b) == IF b = 0 THEN a ELSE GCD(b, a % b)

Frac(n, d) ==
    LET g == GCD(Abs(n), Abs(d))
        s == IF d < 0 THEN -1 ELSE 1
    IN  <<(s * n) \div g, (s * d) \div g>>

FracAdd(x, y) == Frac(x[1] * y[2] + y[1] * x[2], x[2] * y[2])
FracDivInt(x, k) == Frac(x[1], x[2] * k)
Zero == Frac(0, 1)

(***************************************************************************)
(* datetime.strptime(s, '%Y-%m-%d').date().  A date string is read as its  *)
(* three numeric fields; a date is its proleptic Gregorian ordinal         *)
(* (date.toordinal()), so that date - timedelta(days) is a subtraction.    *)
(***************************************************************************)
IsLeap(y) == (y % 4 = 0) /\ ((y % 100 # 0) \/ (y % 400 = 0))

DaysInMonth(y, m) ==
    IF m = 2 THEN (IF IsLeap(y) THEN 29 ELSE 28)
    ELSE IF m \in {4, 6, 9, 11} THEN 30 ELSE 31

RECURSIVE DaysBeforeMonth(_, _)
DaysBeforeMonth(y, m) ==
    IF m = 1 THEN 0 ELSE DaysBeforeMonth(y, m - 1) + DaysInMonth(y, m - 1)

DaysBeforeYear(y) ==
    365 * (y - 1) + ((y - 1) \div 4) - ((y - 1) \div 100) + ((y - 1) \div 400)

ToOrdinal(y, m, d) == DaysBeforeYear(y) + DaysBeforeMonth(y, m) + d

BadDate == -1

strptime(s) ==
    IF /\ s[1] \in 1..9999
       /\ s[2] \in 1..12
       /\ s[3] \in 1..DaysInMonth(s[1], s[2])
    THEN ToOrdinal(s[1], s[2], s[3])
    ELSE BadDate

(***************************************************************************)
(* Request inputs.                                                         *)
(***************************************************************************)
Methods == {"GET", "POST"}
DateStrs == {<<2024, 1, 10>>, <<2024, 1, 11>>, <<2024, 2, 30>>}
\* the checkbox attendance_<id> and the text remarks_<id> of one student
FormMarks == {<<"on", "">>, <<"absent", "">>, <<"absent", "sick">>}
\* datetime.now().date() at the time of a call
Nows == {ToOrdinal(2024, 2, 9), ToOrdinal(2024, 2, 10)}

(***************************************************************************)
(* Responses.                                                              *)
(***************************************************************************)
Redirect(to, flash) ==
    [kind |-> "redirect", status |-> 302, to |-> to, flash |-> flash, data |-> <<>>]
Render(page, data) ==
    [kind |-> "render", status |-> 200, to |-> page, flash |-> "", data |-> data]
Json(status, data) ==
    [kind |-> "json", status |-> status, to |-> "", flash |-> "", data |-> data]
\* errorhandler(500): an unhandled exception ends the request with the 500 page
server_error ==
    [kind |-> "error", status |-> 500, to |-> "500.html", flash |-> "", data |-> <<>>]
NoResp == [kind |-> "none", status |-> 0, to |-> "", flash |-> "", data |-> <<>>]
NoReq == [op |-> "none", user |-> NoId, method |-> "", args |-> <<>>]
NoLoc == <<>>

(***************************************************************************)
(* Queries.                                                                *)
(***************************************************************************)
\* Model.query.filter_by(user_id=u).first(): the lowest id, NoId when there is none
ByUser(table, u) ==
    LET hits == {i \in DOMAIN table : table[i].user_id = u}
    IN  IF hits = {} THEN NoId ELSE CHOOSE i \in hits : \A j \in hits : i <= j

\* Student.query.filter_by(class_name=dept).all(), as the list of ids
RosterOf(dept) ==
    LET F[i \in 0..Len(students)] ==
            IF i = 0 THEN <<>>
            ELSE IF students[i].class_name = dept THEN Append(F[i - 1], i)
                 ELSE F[i - 1]
    IN  F[Len(students)]

\* Query.filter(...).all(): the committed rows of `table` whose id is kept by
\* the filter `keep`, as the list of their ids
RECURSIVE Matching(_, _, _)
Matching(table, keep, i) ==
    IF i > Len(table) THEN <<>>
    ELSE IF keep[i] THEN <<i>> \o Matching(table, keep, i + 1)
         ELSE Matching(table, keep, i + 1)

\* .order_by(Model.date) / .order_by(Model.date.desc()) over the rows `ids`;
\* rows of one date stay in id order
InsertByDate(table, sorted, x, desc) ==
    LET Before(a) == IF desc THEN table[a].date >= table[x].date
                     ELSE table[a].date <= table[x].date
        n == Cardinality({k \in DOMAIN sorted : Before(sorted[k])})
    IN  SubSeq(sorted, 1, n) \o <<x>> \o SubSeq(sorted, n + 1, Len(sorted))

RECURSIVE OrderByDate(_, _, _, _, _)
OrderByDate(table, ids, k, desc, acc) ==
    IF k > Len(ids) THEN acc
    ELSE OrderByDate(table, ids, k + 1, desc, InsertByDate(table, acc, ids[k], desc))

\* .limit(n)
Limit(ids, n) == SubSeq(ids, 1, IF Len(ids) < n THEN Len(ids) ELSE n)

\* date.strftime('%Y-%m-%d'): the three fields of the date of an ordinal
strftime(n) ==
    LET y == CHOOSE c \in 2023..2025 : DaysBeforeYear(c) < n /\ n <= DaysBeforeYear(c + 1)
        m == CHOOSE c \in 1..12 :
                /\ DaysBeforeYear(y) + DaysBeforeMonth(y, c) < n
                /\ n <= DaysBeforeYear(y) + DaysBeforeMonth(y, c) + DaysInMonth(y, c)
    IN  <<y, m, n - DaysBeforeYear(y) - DaysBeforeMonth(y, m)>>

\* round(x, 2), ties to even
round2(x) ==
    LET q == (x[1] * 100) \div x[2]
        r == (x[1] * 100) - q * x[2]
    IN  IF 2 * r < x[2] THEN Frac(q, 100)
        ELSE IF 2 * r > x[2] THEN Frac(q + 1, 100)
        ELSE Frac(IF q % 2 = 0 THEN q ELSE q + 1, 100)

(***************************************************************************)
(* Aggregation helpers.                                                    *)
(***************************************************************************)
DefaultDays == 30
DashboardDays == 60

\* the window without its boundary date
get_attendance_percentage_open(table, now, student_id, days) ==
    LET from_date == now - days
        InWindow(r) == r.student_id = student_id /\ r.date > from_date
        Present(r) == InWindow(r) /\ r.present = TRUE
        total == Len(Matching(table, [id \in DOMAIN table |-> InWindow(table[id])], 1))
        present == Len(Matching(table, [id \in DOMAIN table |-> Present(table[id])], 1))
    IN  IF total = 0 THEN Zero
        ELSE Frac(Frac(present, total)[1] * 100, Frac(present, total)[2])

get_attendance_percentage(table, now, student_id, days) ==
    LET from_date == now - days
        InWindow(r) == r.student_id = student_id /\ r.date >= from_date
        Present(r) == InWindow(r) /\ r.present = TRUE
        total == Len(Matching(table, [id \in DOMAIN table |-> InWindow(table[id])], 1))
        present == Len(Matching(table, [id \in DOMAIN table |-> Present(table[id])], 1))
    IN  IF total = 0 THEN Zero
        ELSE Frac(Frac(present, total)[1] * 100, Frac(present, total)[2])

NoSubject == "<None>"
TypeError == <<"TypeError">>

\* sum(record.percentage for record in records): 0 + None raises TypeError
RECURSIVE SumPercentage(_, _, _, _)
SumPercentage(table, ids, k, acc) ==
    IF k > Len(ids) THEN acc
    ELSE IF table[ids[k]].percentage = None THEN TypeError
         ELSE SumPercentage(table, ids, k + 1, FracAdd(acc, table[ids[k]].percentage))

get_average_marks(table, student_id, subject) ==
    LET Truthy == subject \notin {NoSubject, ""}
        Keep(r) == r.student_id = student_id /\ (Truthy => r.subject = subject)
        records == Matching(table, [id \in DOMAIN table |-> Keep(table[id])], 1)
        total == SumPercentage(table, records, 1, Zero)
    IN  IF records = <<>> THEN Zero
        ELSE IF total = TypeError THEN TypeError
             ELSE FracDivInt(total, Len(records))

(***************************************************************************)
(* The store a deployment starts from.  The handlers create profile rows   *)
(* only through admin_setup, and nothing links a parent to a student, so   *)
(* a populated school is provisioned in the database file; the attendance  *)
(* and progress tables are written by the handlers alone.                  *)
(***************************************************************************)
Email(local, domain) == <<local, domain>>

EmptyWorld ==
    [users |-> <<>>, students |-> <<>>, teachers |-> <<>>, parents |-> <<>>]

School ==
    [users |-> <<
        [username |-> "t1", email |-> Email("t1", "college.com"), role |-> "teacher"],
        [username |-> "t2", email |-> Email("t2", "college.com"), role |-> "teacher"],
        [username |-> "s1", email |-> Email("s1", "college.com"), role |-> "student"],
        [username |-> "s2", email |-> Email("s2", "college.com"), role |-> "student"],
        [username |-> "s3", email |-> Email("s3", "college.com"), role |-> "student"],
        [username |-> "p1", email |-> Email("p1", "home.org"), role |-> "parent"],
        [username |-> "p2", email |-> Email("p2", "home.org"), role |-> "parent"] >>,
     teachers |-> <<
        [user_id |-> 1, department |-> "CSE-A", subject |-> "Math"],
        [user_id |-> 2, department |-> "CSE-A", subject |-> "Physics"] >>,
     students |-> <<
        [user_id |-> 3, roll_number |-> "s1", class_name |-> "CSE-A", parent_id |-> 1],
        [user_id |-> 4, roll_number |-> "s2", class_name |-> "CSE-A", parent_id |-> NoId],
        [user_id |-> 5, roll_number |-> "s3", class_name |-> "CSE-B", parent_id |-> 2] >>,
     parents |-> <<
        [user_id |-> 6, email |-> Email("p1", "home.org")],
        [user_id |-> 7, email |-> Email("p2", "home.org")] >>]

Worlds == {EmptyWorld, School}

Start ==
    /\ \E w \in Worlds :
        /\ users = w.users
        /\ students = w.students
        /\ teachers = w.teachers
        /\ parents = w.parents
    /\ attendance = <<>>
    /\ progress = <<>>
    /\ writer = 0
    /\ pc = [p \in Procs |-> "idle"]
    /\ req = [p \in Procs |-> NoReq]
    /\ loc = [p \in Procs |-> NoLoc]
    /\ resp = [p \in Procs |-> NoResp]
    /\ nreq = 0

\* app.run(): the development server, one thread per request
Init == Start /\ threaded = TRUE
\* one synchronous worker (the hosted deployment the last lines speak of)
InitSerial == Start /\ threaded = FALSE

(***************************************************************************)
(* Request plumbing.  app.run() serves each request on its own thread;     *)
(* a single synchronous worker serves them one after the other.  The       *)
(* workers are alike, so a request goes to the lowest free one.            *)
(***************************************************************************)
Idle(p) == pc[p] \in {"idle", "done"}

CanArrive(p) ==
    /\ Idle(p)
    /\ nreq < MaxRequests
    /\ \A q \in Procs : q < p => ~Idle(q)
    /\ ~threaded => \A q \in Procs : Idle(q)

\* current_user: a stored account, or nobody (login_required then redirects)
Identities == 0..Len(users)

Request(op, u, method, args) == [op |-> op, user |-> u, method |-> method, args |-> args]

\* the request r of worker p ends with `response`; its session is discarded
Finish(p, r, response) ==
    /\ pc' = [pc EXCEPT ![p] = "done"]
    /\ req' = [req EXCEPT ![p] = r]
    /\ loc' = [loc EXCEPT ![p] = NoLoc]
    /\ resp' = [resp EXCEPT ![p] = response]

\* the request r of worker p goes on at `label` with the locals l
Continue(p, r, label, l) ==
    /\ pc' = [pc EXCEPT ![p] = label]
    /\ req' = [req EXCEPT ![p] = r]
    /\ loc' = [loc EXCEPT ![p] = l]
    /\ resp' = [resp EXCEPT ![p] = NoResp]

\* a handler without its role test
RoleNeverDenied(u, role) == FALSE

\* current_user.role != role
RoleDenied(u, role) == users[u].role # role

LoginRequired == Redirect("login", "Please log in to access this page.")
Unauthorized == Redirect("login", "Unauthorized access")

(***************************************************************************)
(* mark_attendance.  The session of the request holds its pending INSERTs  *)
(* (new) and column UPDATEs (dirty) until commit; a query first flushes    *)
(* what is pending, which takes SQLite's write lock until the commit or    *)
(* the rollback.  marked_at, the time of the INSERT, is kept as the number  *)
(* of the request that made the row.                                       *)
(***************************************************************************)
AttendanceKey(r, student_id, teacher_id, date) ==
    r.student_id = student_id /\ r.teacher_id = teacher_id /\ r.date = date

\* the lookup that never finds the stored entry
FirstAttendanceNone(student_id, teacher_id, date) == NoId

\* Attendance.query.filter_by(student_id, teacher_id, date).first() on the
\* committed table: the id of the row, NoId when there is none
FirstAttendance(student_id, teacher_id, date) ==
    LET Keep(r) == AttendanceKey(r, student_id, teacher_id, date)
        hits == Matching(attendance, [id \in DOMAIN attendance |-> Keep(attendance[id])], 1)
    IN  IF hits = <<>> THEN NoId ELSE hits[1]

Pending(l) == l.new # <<>> \/ l.dirty # <<>>

mark_attendance(p) ==
    /\ CanArrive(p)
    /\ nreq' = nreq + 1
    /\ UNCHANGED <<store, threaded, writer>>
    /\ \E u \in Identities, method \in Methods :
        LET teacher == ByUser(teachers, u)
            get == Request("mark_attendance", u, method, <<>>)
        IN  IF u = NoId THEN Finish(p, get, LoginRequired)
            ELSE IF RoleDenied(u, "teacher") THEN Finish(p, get, Unauthorized)
            ELSE IF teacher = NoId THEN Finish(p, get, server_error)
            ELSE IF method = "GET"
                 THEN Finish(p, get, Render("attendance.html",
                                 RosterOf(teachers[teacher].department)))
            ELSE \E date_str \in DateStrs :
                    LET post == Request("mark_attendance", u, method,
                                        [date |-> date_str, form |-> <<>>])
                        attendance_date == strptime(date_str)
                    IN  IF attendance_date = BadDate THEN Finish(p, post, server_error)
                        ELSE Continue(p, post,
                                IF RosterOf(teachers[teacher].department) = <<>>
                                THEN "mark_commit" ELSE "mark_lookup",
                                [teacher |-> teacher,
                                 students |-> RosterOf(teachers[teacher].department),
                                 date |-> attendance_date,
                                 at |-> nreq + 1,
                                 i |-> 1, new |-> <<>>, dirty |-> <<>>])

\* one turn of the loop over the roster: the form fields of the student, the
\* lookup, and the update in place or the session.add
mark_attendance_lookup(p) ==
    /\ pc[p] = "mark_lookup"
    /\ Pending(loc[p]) => writer \in {0, p}
    /\ writer' = IF Pending(loc[p]) THEN p ELSE writer
    /\ UNCHANGED <<store, threaded, resp, nreq>>
    /\ \E mark \in FormMarks :
        LET l == loc[p]
            box == mark[1]
            remarks == mark[2]
            sid == l.students[l.i]
            present == (box = "on")
            existing == FirstAttendance(sid, l.teacher, l.date)
            IsMine(k) == AttendanceKey(l.new[k], sid, l.teacher, l.date)
            mine == {k \in DOMAIN l.new : IsMine(k)}
            change == [id |-> existing,
                       set_present |-> attendance[existing].present # present,
                       present |-> present,
                       set_remarks |-> attendance[existing].remarks # remarks,
                       remarks |-> remarks]
            row == [student_id |-> sid, teacher_id |-> l.teacher, date |-> l.date,
                    present |-> present, remarks |-> remarks, marked_at |-> l.at]
            seen == [l EXCEPT !.i = l.i + 1]
            next == IF existing # NoId
                    THEN IF change.set_present \/ change.set_remarks
                         THEN [seen EXCEPT !.dirty = Append(l.dirty, change)]
                         ELSE seen
                    ELSE IF mine # {}
                    THEN [seen EXCEPT !.new =
                            [k \in DOMAIN l.new |->
                                IF k = CHOOSE m \in mine : \A n \in mine : m <= n
                                THEN row ELSE l.new[k]]]
                    ELSE [seen EXCEPT !.new = Append(l.new, row)]
        IN  /\ loc' = [loc EXCEPT ![p] = next]
            /\ req' = [req EXCEPT ![p].args.form = Append(@, <<sid, box, remarks>>)]
            /\ pc' = [pc EXCEPT ![p] =
                        IF l.i = Len(l.students) THEN "mark_commit" ELSE "mark_lookup"]

\* the UPDATE of the changed columns of one loaded row
ApplyChange(table, c) ==
    [table EXCEPT ![c.id] =
        [@ EXCEPT !.present = IF c.set_present THEN c.present ELSE @,
                  !.remarks = IF c.set_remarks THEN c.remarks ELSE @]]

RECURSIVE ApplyChanges(_, _, _)
ApplyChanges(table, dirty, k) ==
    IF k > Len(dirty) THEN table
    ELSE ApplyChanges(ApplyChange(table, dirty[k]), dirty, k + 1)

\* db.session.commit(): the UPDATEs and INSERTs of the session become visible
mark_attendance_commit(p) ==
    /\ pc[p] = "mark_commit"
    /\ Pending(loc[p]) => writer \in {0, p}
    /\ writer' = IF writer = p THEN 0 ELSE writer
    /\ attendance' = ApplyChanges(attendance, loc[p].dirty, 1) \o loc[p].new
    /\ UNCHANGED <<users, students, teachers, parents, progress, threaded, nreq>>
    /\ Finish(p, req[p], Redirect("mark_attendance", "Attendance marked successfully!"))

\* a storage error after which the flushed part of the session stays stored
mark_attendance_fault_flushed(p) ==
    /\ pc[p] \in {"mark_lookup", "mark_commit"}
    /\ writer' = IF writer = p THEN 0 ELSE writer
    /\ attendance' = ApplyChanges(attendance, loc[p].dirty, 1) \o loc[p].new
    /\ UNCHANGED <<users, students, teachers, parents, progress, threaded, nreq>>
    /\ Finish(p, req[p], server_error)

\* a storage error in the loop or at the commit: the 500 handler rolls back
mark_attendance_fault(p) ==
    /\ pc[p] \in {"mark_lookup", "mark_commit"}
    /\ writer' = IF writer = p THEN 0 ELSE writer
    /\ UNCHANGED <<store, threaded, nreq>>
    /\ Finish(p, req[p], server_error)

(***************************************************************************)
(* The read-only views.                                                    *)
(***************************************************************************)
StudentIdInputs == {1, 2, 3, 9}

student_dashboard(p) ==
    /\ CanArrive(p)
    /\ nreq' = nreq + 1
    /\ UNCHANGED <<store, threaded, writer>>
    /\ \E u \in Identities :
        LET r == Request("student_dashboard", u, "GET", <<>>)
            student == ByUser(students, u)
            Mine(row) == row.student_id = student
        IN  IF u = NoId THEN Finish(p, r, LoginRequired)
            ELSE IF RoleDenied(u, "student") THEN Finish(p, r, Unauthorized)
            ELSE IF student = NoId
                 THEN Finish(p, r, Redirect("logout", "Student profile not found"))
            ELSE \E now \in Nows :
                    Finish(p, r, Render("student_dashboard.html",
                        [student |-> student,
                         attendance_30 |->
                            get_attendance_percentage(attendance, now, student, 30),
                         attendance_60 |->
                            get_attendance_percentage(attendance, now, student, DashboardDays),
                         recent_attendance |->
                            Limit(OrderByDate(attendance,
                                    Matching(attendance, [id \in DOMAIN attendance |-> Mine(attendance[id])], 1),
                                              1, TRUE, <<>>), 10),
                         recent_progress |->
                            Limit(OrderByDate(progress,
                                    Matching(progress, [id \in DOMAIN progress |-> Mine(progress[id])], 1),
                                              1, TRUE, <<>>), 5)]))

\* the rows of the loop over `ids` in parent_dashboard and reports
RECURSIVE StudentData(_, _, _, _)
StudentData(ids, k, now, rounded) ==
    IF k > Len(ids) THEN <<>>
    ELSE LET att == get_attendance_percentage(attendance, now, ids[k], DefaultDays)
             avg == get_average_marks(progress, ids[k], NoSubject)
         IN  <<[student |-> ids[k],
                attendance |-> IF rounded THEN round2(att) ELSE att,
                avg_marks |-> IF avg = TypeError THEN TypeError
                              ELSE IF rounded THEN round2(avg) ELSE avg]>>
             \o StudentData(ids, k + 1, now, rounded)

Raises(data) == \E k \in DOMAIN data : data[k].avg_marks = TypeError

parent_dashboard(p) ==
    /\ CanArrive(p)
    /\ nreq' = nreq + 1
    /\ UNCHANGED <<store, threaded, writer>>
    /\ \E u \in Identities :
        LET r == Request("parent_dashboard", u, "GET", <<>>)
            parent == ByUser(parents, u)
            Child(row) == row.parent_id = parent
        IN  IF u = NoId THEN Finish(p, r, LoginRequired)
            ELSE IF RoleDenied(u, "parent") THEN Finish(p, r, Unauthorized)
            ELSE IF parent = NoId
                 THEN Finish(p, r, Redirect("logout", "Parent profile not found"))
            ELSE \E now \in Nows :
                    LET data == StudentData(
                            Matching(students, [id \in DOMAIN students |-> Child(students[id])], 1), 1, now, FALSE)
                    IN  IF Raises(data) THEN Finish(p, r, server_error)
                        ELSE Finish(p, r, Render("parent_dashboard.html", data))

\* the test that turns away only a student linked to no parent
NotOwnedOrphan(student_id, parent) == students[student_id].parent_id = NoId

\* student.parent_id != parent.id
NotOwned(student_id, parent) == students[student_id].parent_id # parent

parent_view_student(p) ==
    /\ CanArrive(p)
    /\ nreq' = nreq + 1
    /\ UNCHANGED <<store, threaded, writer>>
    /\ \E u \in Identities, student_id \in StudentIdInputs :
        LET r == Request("parent_view_student", u, "GET", student_id)
            parent == ByUser(parents, u)
            Of(row) == row.student_id = student_id
        IN  IF u = NoId THEN Finish(p, r, LoginRequired)
            ELSE IF RoleDenied(u, "parent") THEN Finish(p, r, Unauthorized)
            ELSE IF student_id \notin DOMAIN students
                 THEN Finish(p, r, Redirect("parent_dashboard", "Student not found"))
            ELSE IF parent = NoId THEN Finish(p, r, server_error)
            ELSE IF NotOwned(student_id, parent)
                 THEN Finish(p, r, Redirect("parent_dashboard",
                                            "You cannot view this student"))
            ELSE \E now \in Nows :
                    LET average_marks == get_average_marks(progress, student_id, NoSubject)
                    IN  IF average_marks = TypeError THEN Finish(p, r, server_error)
                        ELSE Finish(p, r, Render("parent_view_student.html",
                            [student |-> student_id,
                             attendance_records |->
                                Limit(OrderByDate(attendance,
                                        Matching(attendance, [id \in DOMAIN attendance |-> Of(attendance[id])], 1),
                                                  1, TRUE, <<>>), 30),
                             progress_records |->
                                OrderByDate(progress,
                                        Matching(progress, [id \in DOMAIN progress |-> Of(progress[id])], 1),
                                            1, TRUE, <<>>),
                             attendance_percentage |->
                                get_attendance_percentage(attendance, now, student_id,
                                                          DefaultDays),
                             average_marks |-> average_marks]))

teacher_dashboard(p) ==
    /\ CanArrive(p)
    /\ nreq' = nreq + 1
    /\ UNCHANGED <<store, threaded, writer>>
    /\ \E u \in Identities :
        LET r == Request("teacher_dashboard", u, "GET", <<>>)
            teacher == ByUser(teachers, u)
        IN  IF u = NoId THEN Finish(p, r, LoginRequired)
            ELSE IF RoleDenied(u, "teacher") THEN Finish(p, r, Unauthorized)
            ELSE IF teacher = NoId
                 THEN Finish(p, r, Redirect("logout", "Teacher profile not found"))
            ELSE Finish(p, r, Render("teacher_dashboard.html",
                        [teacher |-> teacher,
                         total_students |-> Len(RosterOf(teachers[teacher].department))]))

reports(p) ==
    /\ CanArrive(p)
    /\ nreq' = nreq + 1
    /\ UNCHANGED <<store, threaded, writer>>
    /\ \E u \in Identities :
        LET r == Request("reports", u, "GET", <<>>)
            teacher == ByUser(teachers, u)
        IN  IF u = NoId THEN Finish(p, r, LoginRequired)
            ELSE IF RoleDenied(u, "teacher") THEN Finish(p, r, Unauthorized)
            ELSE IF teacher = NoId THEN Finish(p, r, server_error)
            ELSE \E now \in Nows :
                    LET data == StudentData(RosterOf(teachers[teacher].department),
                                            1, now, TRUE)
                    IN  IF Raises(data) THEN Finish(p, r, server_error)
                        ELSE Finish(p, r, Render("reports.html", data))

attendance_chart_data(p) ==
    /\ CanArrive(p)
    /\ nreq' = nreq + 1
    /\ UNCHANGED <<store, threaded, writer>>
    /\ \E u \in Identities :
        LET r == Request("attendance_chart_data", u, "GET", <<>>)
            student == ByUser(students, u)
        IN  IF u = NoId THEN Finish(p, r, LoginRequired)
            ELSE IF RoleDenied(u, "student") THEN Finish(p, r, Json(401, [error |-> "Unauthorized"]))
            ELSE IF student = NoId THEN Finish(p, r, server_error)
            ELSE \E now \in Nows :
                    LET from_date == now - 30
                        Keep(row) == row.student_id = student /\ row.date >= from_date
                        records == OrderByDate(attendance,
                                Matching(attendance, [id \in DOMAIN attendance |-> Keep(attendance[id])], 1),
                                               1, FALSE, <<>>)
                    IN  Finish(p, r, Json(200,
                            [labels |-> [k \in DOMAIN records |->
                                            strftime(attendance[records[k]].date)],
                             data |-> [k \in DOMAIN records |->
                                            IF attendance[records[k]].present
                                            THEN 1 ELSE 0]]))

progress_chart_data(p) ==
    /\ CanArrive(p)
    /\ nreq' = nreq + 1
    /\ UNCHANGED <<store, threaded, writer>>
    /\ \E u \in Identities :
        LET r == Request("progress_chart_data", u, "GET", <<>>)
            student == ByUser(students, u)
            Mine(row) == row.student_id = student
            records == Limit(OrderByDate(progress,
                    Matching(progress, [id \in DOMAIN progress |-> Mine(progress[id])], 1),
                                         1, FALSE, <<>>), 10)
        IN  IF u = NoId THEN Finish(p, r, LoginRequired)
            ELSE IF RoleDenied(u, "student") THEN Finish(p, r, Json(401, [error |-> "Unauthorized"]))
            ELSE IF student = NoId THEN Finish(p, r, server_error)
            ELSE Finish(p, r, Json(200,
                    [labels |-> [k \in DOMAIN records |->
                                    progress[records[k]].assignment_name],
                     data |-> [k \in DOMAIN records |->
                                    progress[records[k]].percentage]]))

(***************************************************************************)
(* update_progress.  A numeric form field is absent, a number or text      *)
(* that float() rejects.                                                   *)
(***************************************************************************)
Absent == [kind |-> "absent", value |-> 0]
Number(v) == [kind |-> "number", value |-> v]
Junk == [kind |-> "junk", value |-> 0]

\* float(request.form.get(name, default)); a junk field raises ValueError
float(field, default) == IF field.kind = "absent" THEN default ELSE field.value

MarksInputs == {Number(30), Number(40)}
TotalInputs == {Absent, Number(0), Number(50), Number(-50), Junk}
ProgressStudentInputs == {1, 3, 9}
ProgressDateStrs == {<<2024, 1, 10>>, <<2024, 2, 30>>}
Assignments == {"Quiz"}

\* the guard against a zero total alone
calculate_percentage_nonzero(row) ==
    IF row.total_marks # 0
    THEN [row EXCEPT !.percentage =
            Frac(Frac(row.marks_obtained, row.total_marks)[1] * 100,
                 Frac(row.marks_obtained, row.total_marks)[2])]
    ELSE row

\* Progress.calculate_percentage on a new row, whose percentage is None
calculate_percentage(row) ==
    IF row.total_marks > 0
    THEN [row EXCEPT !.percentage =
            Frac(Frac(row.marks_obtained, row.total_marks)[1] * 100,
                 Frac(row.marks_obtained, row.total_marks)[2])]
    ELSE row

update_progress(p) ==
    /\ CanArrive(p)
    /\ nreq' = nreq + 1
    /\ UNCHANGED <<users, students, teachers, parents, attendance, threaded, writer>>
    /\ \E u \in Identities, method \in Methods :
        LET teacher == ByUser(teachers, u)
            r == Request("update_progress", u, method, <<>>)
            Reply(response) == Finish(p, r, response) /\ UNCHANGED progress
        IN  IF u = NoId THEN Reply(LoginRequired)
            ELSE IF RoleDenied(u, "teacher") THEN Reply(Unauthorized)
            ELSE IF teacher = NoId THEN Reply(server_error)
            ELSE IF method = "GET"
                 THEN Reply(Render("progress.html", RosterOf(teachers[teacher].department)))
            ELSE \E student_id \in ProgressStudentInputs, assignment_name \in Assignments,
                    marks_obtained \in MarksInputs, total_marks \in TotalInputs,
                    date_str \in ProgressDateStrs :
                    LET progress_date == strptime(date_str)
                        row == calculate_percentage(
                                [student_id |-> student_id,
                                 teacher_id |-> teacher,
                                 subject |-> teachers[teacher].subject,
                                 assignment_name |-> assignment_name,
                                 marks_obtained |-> float(marks_obtained, 0),
                                 total_marks |-> float(total_marks, 100),
                                 percentage |-> None,
                                 date |-> progress_date])
                    IN  IF \/ marks_obtained.kind = "junk"
                           \/ total_marks.kind = "junk"
                           \/ progress_date = BadDate
                        THEN Reply(server_error)
                        ELSE /\ writer = 0
                             /\ progress' = Append(progress, row)
                             /\ Finish(p, r, Redirect("update_progress",
                                                      "Progress updated successfully!"))

(***************************************************************************)
(* register and admin_setup.  The user table has UNIQUE username and       *)
(* UNIQUE email, the student table UNIQUE roll_number: a commit that       *)
(* breaks one raises IntegrityError.                                       *)
(***************************************************************************)
Usernames == {"t1", "bob"}
Emails == {Email("t1", "college.com"), Email("bob", "home.org")}
Roles == {"student", "teacher", "parent"}

\* User.query.filter_by(username=username).first() is not None
UsernameExists(username) == \E k \in DOMAIN users : users[k].username = username
\* register without its email test
EmailNeverExists(email) == FALSE

\* User.query.filter_by(email=email).first() is not None
EmailExists(email) == \E k \in DOMAIN users : users[k].email = email

\* the UNIQUE constraints of the user table
UserIntegrityError(user) ==
    \E k \in DOMAIN users :
        users[k].username = user.username \/ users[k].email = user.email

register(p) ==
    /\ CanArrive(p)
    /\ nreq' = nreq + 1
    /\ UNCHANGED <<store, threaded, writer>>
    /\ \E method \in Methods :
        IF method = "GET"
        THEN Finish(p, Request("register", NoId, method, <<>>),
                    Render("register.html", <<>>))
        ELSE \E username \in Usernames, email \in Emails, role \in Roles :
                LET user == [username |-> username, email |-> email, role |-> role]
                    r == Request("register", NoId, method, user)
                IN  IF UsernameExists(username)
                    THEN Finish(p, r, Redirect("register", "Username already exists"))
                    ELSE IF EmailExists(email)
                    THEN Finish(p, r, Redirect("register", "Email already registered"))
                    ELSE Continue(p, r, "register_commit", [user |-> user])

register_commit(p) ==
    /\ pc[p] = "register_commit"
    /\ writer = 0
    /\ UNCHANGED <<students, teachers, parents, attendance, progress,
                   threaded, writer, nreq>>
    /\ IF UserIntegrityError(loc[p].user)
       THEN /\ UNCHANGED users
            /\ Finish(p, req[p], server_error)
       ELSE /\ users' = Append(users, loc[p].user)
            /\ Finish(p, req[p], Redirect("login", "Registration successful! Please login."))

\* email.split('@')[0]
LocalPart(email) == email[1]

SetupActions == {"create_admin", "create_student", "create_parent", "other"}
SetupEmails == {Email("bob", "home.org"), Email("admin", "college.com")}
RollNumbers == {"r1"}
ClassNames == {"CSE-A"}

admin_setup(p) ==
    /\ CanArrive(p)
    /\ nreq' = nreq + 1
    /\ UNCHANGED <<store, threaded, writer>>
    /\ \E method \in Methods :
        LET get == Request("admin_setup", NoId, method, <<>>)
        IN  IF users # <<>>
            THEN Finish(p, get, Redirect("login", "Setup already completed"))
            ELSE IF method = "GET" THEN Finish(p, get, Render("admin_setup.html", <<>>))
            ELSE \E action \in SetupActions :
                    LET r == Request("admin_setup", NoId, method, action)
                    IN  IF action = "create_admin"
                        THEN Continue(p, r, "setup_user",
                                [user |-> [username |-> "admin",
                                           email |-> Email("admin", "college.com"),
                                           role |-> "teacher"],
                                 profile |-> [department |-> "CSE-A",
                                              subject |-> "Computer Science"]])
                        ELSE IF action = "create_student"
                        THEN \E roll \in RollNumbers, email \in SetupEmails,
                                class_name \in ClassNames :
                                Continue(p, r, "setup_user",
                                    [user |-> [username |-> roll, email |-> email,
                                               role |-> "student"],
                                     profile |-> [roll_number |-> roll,
                                                  class_name |-> class_name,
                                                  parent_id |-> NoId]])
                        ELSE IF action = "create_parent"
                        THEN \E email \in SetupEmails :
                                Continue(p, r, "setup_user",
                                    [user |-> [username |-> LocalPart(email),
                                               email |-> email, role |-> "parent"],
                                     profile |-> [email |-> email]])
                        ELSE Finish(p, r, Redirect("admin_setup", ""))

\* db.session.add(user); db.session.commit()
admin_setup_user(p) ==
    /\ pc[p] = "setup_user"
    /\ writer = 0
    /\ UNCHANGED <<students, teachers, parents, attendance, progress,
                   threaded, writer, nreq>>
    /\ IF UserIntegrityError(loc[p].user)
       THEN /\ UNCHANGED users
            /\ Finish(p, req[p], server_error)
       ELSE /\ users' = Append(users, loc[p].user)
            /\ Continue(p, req[p], "setup_profile",
                        [loc[p] EXCEPT !.user = Len(users) + 1])

\* db.session.add(profile); db.session.commit(); flash; redirect
admin_setup_profile(p) ==
    /\ pc[p] = "setup_profile"
    /\ writer = 0
    /\ UNCHANGED <<users, attendance, progress, threaded, writer, nreq>>
    /\ LET l == loc[p]
           action == req[p].args
           done == Finish(p, req[p], Redirect("admin_setup", "created"))
       IN  IF action = "create_admin"
           THEN /\ teachers' = Append(teachers,
                        [user_id |-> l.user, department |-> l.profile.department,
                         subject |-> l.profile.subject])
                /\ UNCHANGED <<students, parents>>
                /\ done
           ELSE IF action = "create_student"
           THEN IF \E k \in DOMAIN students :
                        students[k].roll_number = l.profile.roll_number
                THEN /\ UNCHANGED <<students, teachers, parents>>
                     /\ Finish(p, req[p], server_error)
                ELSE /\ students' = Append(students,
                            [user_id |-> l.user, roll_number |-> l.profile.roll_number,
                             class_name |-> l.profile.class_name,
                             parent_id |-> l.profile.parent_id])
                     /\ UNCHANGED <<teachers, parents>>
                     /\ done
           ELSE /\ parents' = Append(parents,
                        [user_id |-> l.user, email |-> l.profile.email])
                /\ UNCHANGED <<students, teachers>>
                /\ done

(***************************************************************************)
(* Specifications: the whole application, and each part of the store with  *)
(* the handlers that use it.                                               *)
(***************************************************************************)
NextAttendance ==
    \/ \E p \in Procs : mark_attendance(p)
    \/ \E p \in Procs : mark_attendance_lookup(p)
    \/ \E p \in Procs : mark_attendance_commit(p)
    \/ \E p \in Procs : mark_attendance_fault(p)
    \/ \E p \in Procs : student_dashboard(p)
    \/ \E p \in Procs : attendance_chart_data(p)

NextProgress ==
    \/ \E p \in Procs : update_progress(p)
    \/ \E p \in Procs : reports(p)
    \/ \E p \in Procs : parent_dashboard(p)
    \/ \E p \in Procs : parent_view_student(p)
    \/ \E p \in Procs : teacher_dashboard(p)
    \/ \E p \in Procs : progress_chart_data(p)

NextAccounts ==
    \/ \E p \in Procs : register(p)
    \/ \E p \in Procs : register_commit(p)
    \/ \E p \in Procs : admin_setup(p)
    \/ \E p \in Procs : admin_setup_user(p)
    \/ \E p \in Procs : admin_setup_profile(p)

Next == NextAttendance \/ NextProgress \/ NextAccounts

Spec == Init /\ [][Next]_vars
SpecAttendance == Init /\ [][NextAttendance]_vars
SpecProgress == Init /\ [][NextProgress]_vars
SpecAccounts == Init /\ [][NextAccounts]_vars
SpecSerial == InitSerial /\ [][NextAttendance]_vars
SpecSerialAll == InitSerial /\ [][Next]_vars

\* the school after teacher t1 has entered eleven quizzes of student s1 through
\* update_progress, one a day from 2023-09-01 on, marked 4, 8, ..., 44 out of 50
QuizNames == <<"Quiz 1", "Quiz 2", "Quiz 3", "Quiz 4", "Quiz 5", "Quiz 6",
               "Quiz 7", "Quiz 8", "Quiz 9", "Quiz 10", "Quiz 11">>

QuizHistory ==
    [k \in DOMAIN QuizNames |->
        calculate_percentage([student_id |-> 1,
                              teacher_id |-> 1,
                              subject |-> School.teachers[1].subject,
                              assignment_name |-> QuizNames[k],
                              marks_obtained |-> 4 * k,
                              total_marks |-> 50,
                              percentage |-> None,
                              date |-> ToOrdinal(2023, 9, k)])]

InitHistory ==
    /\ users = School.users
    /\ students = School.students
    /\ teachers = School.teachers
    /\ parents = School.parents
    /\ attendance = <<>>
    /\ progress = QuizHistory
    /\ writer = 0
    /\ pc = [p \in Procs |-> "idle"]
    /\ req = [p \in Procs |-> NoReq]
    /\ loc = [p \in Procs |-> NoLoc]
    /\ resp = [p \in Procs |-> NoResp]
    /\ nreq = 0
    /\ threaded = FALSE

SpecHistory == InitHistory /\ [][NextProgress]_vars

(***************************************************************************)
(* Properties.                                                             *)
(***************************************************************************)
Done(p, op) == pc[p] = "done" /\ req[p].op = op
Marked(p) ==
    /\ Done(p, "mark_attendance")
    /\ req[p].method = "POST"
    /\ resp[p].kind = "redirect"
    /\ resp[p].to = "mark_attendance"

\* the stored entries of (student, teacher, date)
EntriesOf(student_id, teacher_id, date) ==
    {k \in DOMAIN attendance :
        /\ attendance[k].student_id = student_id
        /\ attendance[k].teacher_id = teacher_id
        /\ attendance[k].date = date}

TeacherOf(u) == CHOOSE t \in DOMAIN teachers : teachers[t].user_id = u

\* C1: with requests served one after the other, once a mark-attendance
\* submission has been stored, every student of the submitted roster has
\* exactly one entry for (student, teacher, date), and its present flag and
\* remarks are those of this - the latest - submission, also when an earlier
\* submission for the same date had stored the entry.
C1_UpsertIdempotent ==
    \A p \in Procs :
        Marked(p) =>
            \A f \in DOMAIN req[p].args.form :
                LET field == req[p].args.form[f]
                    entries == EntriesOf(field[1], TeacherOf(req[p].user),
                                         strptime(req[p].args.date))
                IN  /\ Cardinality(entries) = 1
                    /\ \A k \in entries :
                        /\ attendance[k].present = (field[2] = "on")
                        /\ attendance[k].remarks = field[3]

\* a second submission by the same teacher for the same date has been stored:
\* the entries of its roster were made by an earlier request, and one of them
\* now says present
C1_Witness ==
    \E p \in Procs :
        /\ Marked(p)
        /\ Len(req[p].args.form) = 2
        /\ \A f \in DOMAIN req[p].args.form :
            \E k \in EntriesOf(req[p].args.form[f][1], TeacherOf(req[p].user),
                               strptime(req[p].args.date)) :
                attendance[k].marked_at < nreq
        /\ \E k \in DOMAIN attendance : attendance[k].present /\ attendance[k].marked_at < nreq
        /\ \E k \in DOMAIN attendance : attendance[k].remarks = "sick"

\* C2: in every reachable state, also with two mark-attendance requests of one
\* teacher for one date interleaving, the store holds at most one attendance
\* entry per (student, teacher, date).
C2_AtMostOneEntry ==
    \A j, k \in DOMAIN attendance :
        /\ attendance[j].student_id = attendance[k].student_id
        /\ attendance[j].teacher_id = attendance[k].teacher_id
        /\ attendance[j].date = attendance[k].date
        => j = k

\* C8: attendance_percentage(student, windowDays) is 0 when the student has no
\* entry dated today - windowDays or later, and otherwise present / total * 100
\* over exactly the student's entries dated today - windowDays or later, the
\* boundary date included; with a single entry in the window it is 100 for
\* present and 0 for absent.
InWindowOf(student_id, now, days) ==
    {k \in DOMAIN attendance :
        attendance[k].student_id = student_id /\ now - attendance[k].date <= days}

C8_AttendancePercentage ==
    \A now \in Nows, student_id \in StudentIdInputs, days \in {DefaultDays, DashboardDays} :
        LET window == InWindowOf(student_id, now, days)
            present == {k \in window : attendance[k].present}
            result == get_attendance_percentage(attendance, now, student_id, days)
        IN  /\ window = {} => result = <<0, 1>>
            /\ window # {} =>
                result[1] * Cardinality(window) = 100 * Cardinality(present) * result[2]
            /\ Cardinality(window) = 1 =>
                result = IF present = window THEN <<100, 1>> ELSE <<0, 1>>

\* a student dashboard shown on 2024-02-09 to a student whose single entry, of
\* 2024-01-10 (the boundary of the 30 days), says present: 100 per cent; a day
\* later the entry is outside the window
C8_Witness ==
    \E p \in Procs :
        /\ Done(p, "student_dashboard")
        /\ resp[p].kind = "render"
        /\ resp[p].data.attendance_30 = <<100, 1>>
        /\ LET mine == {k \in DOMAIN attendance :
                            attendance[k].student_id = resp[p].data.student}
           IN  /\ Cardinality(mine) = 1
               /\ \A k \in mine : attendance[k].date = ToOrdinal(2024, 1, 10)
               /\ get_attendance_percentage(attendance, ToOrdinal(2024, 2, 10),
                                            resp[p].data.student, DefaultDays) = <<0, 1>>
        /\ \E other \in DOMAIN students :
            /\ InWindowOf(other, ToOrdinal(2024, 2, 9), DefaultDays) # {}
            /\ get_attendance_percentage(attendance, ToOrdinal(2024, 2, 9),
                                         other, DefaultDays) = <<0, 1>>

\* C3: a parent with a profile is shown the detail of a student only if the
\* student exists and its parent_id is the id of the parent's profile; for
\* every other student id the request ends in a redirect to the parent
\* dashboard (ownership denied, or not found) and no detail is returned.
C3_ParentOwnership ==
    \A p \in Procs :
        /\ Done(p, "parent_view_student")
        /\ req[p].user # NoId
        /\ users[req[p].user].role = "parent"
        /\ \E k \in DOMAIN parents : parents[k].user_id = req[p].user
        => LET student_id == req[p].args
               mine == {k \in DOMAIN parents : parents[k].user_id = req[p].user}
               owned == /\ student_id \in DOMAIN students
                        /\ students[student_id].parent_id \in mine
           IN  /\ resp[p].kind = "render" => owned /\ resp[p].data.student = student_id
               /\ ~owned =>
                    /\ resp[p].kind = "redirect"
                    /\ resp[p].to = "parent_dashboard"
                    /\ resp[p].flash \in {"You cannot view this student", "Student not found"}
                    /\ resp[p].data = <<>>

\* a parent has been shown the detail of the own child, with a progress record
C3_Witness ==
    \E p \in Procs :
        /\ Done(p, "parent_view_student")
        /\ resp[p].kind = "render"
        /\ resp[p].data.student = 1
        /\ resp[p].data.progress_records # <<>>
        /\ resp[p].data.average_marks = <<80, 1>>

\* the role each protected operation asks for
RequiredRole(op) ==
    IF op \in {"student_dashboard", "attendance_chart_data", "progress_chart_data"}
    THEN "student"
    ELSE IF op \in {"parent_dashboard", "parent_view_student"} THEN "parent"
    ELSE IF op \in {"teacher_dashboard", "mark_attendance", "update_progress", "reports"}
    THEN "teacher"
    ELSE "none"

ChartOps == {"attendance_chart_data", "progress_chart_data"}

\* worker p takes up a request of an account whose role is not the one the
\* operation asks for
WrongRoleArrives(p) ==
    /\ CanArrive(p)
    /\ nreq' = nreq + 1
    /\ RequiredRole(req'[p].op) # "none"
    /\ req'[p].user # NoId
    /\ users[req'[p].user].role # RequiredRole(req'[p].op)

\* C4 as amended: a request to a protected operation from an account of another
\* role ends at once and leaves the store unchanged; the dashboards,
\* parent-view-student, mark-attendance, update-progress and reports redirect to
\* login with the unauthorized notice, the two chart-data endpoints answer 401
\* with the JSON body {error: Unauthorized}.
C4_RoleGating ==
    [][\A p \in Procs :
        WrongRoleArrives(p) =>
            /\ pc'[p] = "done"
            /\ store' = store
            /\ IF req'[p].op \in ChartOps
               THEN /\ resp'[p].kind = "json"
                    /\ resp'[p].status = 401
                    /\ resp'[p].data = [error |-> "Unauthorized"]
               ELSE /\ resp'[p].kind = "redirect"
                    /\ resp'[p].to = "login"
                    /\ resp'[p].flash = "Unauthorized access"]_vars

\* C4 as stated: every protected operation, the chart-data endpoints included,
\* rejects another role by the redirect to login with the unauthorized notice.
C4_RoleGatingRedirect ==
    [][\A p \in Procs :
        WrongRoleArrives(p) =>
            /\ pc'[p] = "done"
            /\ store' = store
            /\ resp'[p].kind = "redirect"
            /\ resp'[p].to = "login"
            /\ resp'[p].flash = "Unauthorized access"]_vars

\* a teacher has asked for the attendance chart data of the students, with
\* attendance stored, and was answered 401
C4_Witness ==
    \E p \in Procs :
        /\ Done(p, "attendance_chart_data")
        /\ req[p].user # NoId
        /\ users[req[p].user].role = "teacher"
        /\ resp[p].status = 401
        /\ attendance # <<>>

UniqueAccounts(table) ==
    \A j, k \in DOMAIN table :
        (table[j].username = table[k].username \/ table[j].email = table[k].email)
        => j = k

\* C5: a register request whose username or email belongs to a stored account
\* ends with the duplicate notice and leaves every account as it was, and no
\* step leaves two accounts with one username or one email.
C5_RegisterDuplicate ==
    [][/\ UniqueAccounts(users')
       /\ \A p \in Procs :
            /\ CanArrive(p)
            /\ nreq' = nreq + 1
            /\ req'[p].op = "register"
            /\ req'[p].method = "POST"
            /\ \E k \in DOMAIN users :
                \/ users[k].username = req'[p].args.username
                \/ users[k].email = req'[p].args.email
            => /\ pc'[p] = "done"
               /\ users' = users
               /\ resp'[p].kind = "redirect"
               /\ resp'[p].to = "register"
               /\ resp'[p].flash \in {"Username already exists",
                                      "Email already registered"}]_vars

\* a registration under a new username with the email of a stored account was
\* turned down, after another registration had been stored
C5_Witness ==
    \E p \in Procs :
        /\ Done(p, "register")
        /\ resp[p].flash = "Email already registered"
        /\ \E k \in DOMAIN users :
            /\ users[k].email = req[p].args.email
            /\ users[k].username # req[p].args.username
        /\ \E k \in DOMAIN users : users[k].username = "bob"

\* C6: every stored progress entry with total_marks > 0 has the percentage
\* marks_obtained / total_marks * 100, and every entry with total_marks <= 0
\* has no percentage.
C6_Percentage ==
    \A k \in DOMAIN progress :
        LET row == progress[k]
        IN  /\ row.total_marks > 0 =>
                /\ row.percentage # None
                /\ row.percentage[1] * row.total_marks
                        = row.marks_obtained * 100 * row.percentage[2]
            /\ row.total_marks <= 0 => row.percentage = None

\* entries of 40 out of 50 (80 per cent), of a zero total and of a negative
\* total are stored
C6_Witness ==
    /\ \E k \in DOMAIN progress :
        progress[k].total_marks = 50 /\ progress[k].percentage = <<80, 1>>
    /\ \E k \in DOMAIN progress : progress[k].total_marks < 0

\* the sum of the percentages of the progress entries `ids`
RECURSIVE SumOf(_)
SumOf(ids) ==
    IF ids = {} THEN Zero
    ELSE LET k == CHOOSE k \in ids : TRUE
         IN  FracAdd(progress[k].percentage, SumOf(ids \ {k}))

SubjectArgs == {NoSubject, "Math", "Physics"}

\* C7: average_marks(student, subject) is 0 when no progress entry of the
\* student matches the subject filter, and otherwise the arithmetic mean of the
\* percentage of exactly the matching entries of that student.
C7_AverageMarks ==
    \A student_id \in StudentIdInputs, subject \in SubjectArgs :
        LET matching == {k \in DOMAIN progress :
                            /\ progress[k].student_id = student_id
                            /\ subject # NoSubject => progress[k].subject = subject}
            result == get_average_marks(progress, student_id, subject)
        IN  /\ matching = {} => result = <<0, 1>>
            /\ matching # {} =>
                /\ result # TypeError
                /\ (\A k \in matching : progress[k].percentage # None)
                    => result = FracDivInt(SumOf(matching), Cardinality(matching))

\* C9: admin-setup stores an account only in a state without any account, so
\* that it never stores a second one (no profile is stored or about to be when
\* it stores an account), and once an account is stored every admin-setup
\* request is turned away with the redirect to login and changes nothing,
\* whatever the interleaving.
C9_BootstrapOnce ==
    [][\A p \in Procs :
        /\ (pc[p] = "setup_user" /\ pc'[p] = "setup_profile") =>
                /\ users = <<>>
                /\ \A q \in Procs : pc[q] # "setup_profile"
        /\ (/\ CanArrive(p)
            /\ nreq' = nreq + 1
            /\ req'[p].op = "admin_setup"
            /\ users # <<>>)
            => /\ pc'[p] = "done"
               /\ store' = store
               /\ resp'[p].kind = "redirect"
               /\ resp'[p].to = "login"]_vars

\* C10: for a student with a progress entry without percentage, average_marks
\* is the mean over the student's entries that have one (0 when there is none),
\* and reports, the parent dashboard and the parent's view of an own child are
\* rendered.
C10_UnsetSkipped ==
    /\ \A student_id \in StudentIdInputs :
        LET all == {k \in DOMAIN progress : progress[k].student_id = student_id}
            set == {k \in all : progress[k].percentage # None}
        IN  all # set =>
                get_average_marks(progress, student_id, NoSubject)
                    = IF set = {} THEN <<0, 1>>
                      ELSE FracDivInt(SumOf(set), Cardinality(set))
    /\ \A p \in Procs :
        /\ pc[p] = "done"
        /\ req[p].user # NoId
        => /\ (/\ req[p].op = "reports"
               /\ users[req[p].user].role = "teacher"
               /\ \E t \in DOMAIN teachers : teachers[t].user_id = req[p].user)
               => resp[p].kind = "render"
           /\ (/\ req[p].op = "parent_dashboard"
               /\ users[req[p].user].role = "parent"
               /\ \E k \in DOMAIN parents : parents[k].user_id = req[p].user)
               => resp[p].kind = "render"
           /\ (/\ req[p].op = "parent_view_student"
               /\ users[req[p].user].role = "parent"
               /\ req[p].args \in DOMAIN students
               /\ \E k \in DOMAIN parents :
                    /\ parents[k].user_id = req[p].user
                    /\ students[req[p].args].parent_id = k)
               => resp[p].kind = "render"

(***************************************************************************)
(* Storage failure inside one submission of mark_attendance.               *)
(***************************************************************************)
\* the submission of worker p ended in the 500 page after the loop had read
\* the form fields of at least one student
FailedPartway(p) ==
    /\ Done(p, "mark_attendance")
    /\ req[p].method = "POST"
    /\ resp[p] = server_error
    /\ req[p].args.form # <<>>

\* the entry the form fields `f` of the submission of worker p ask for is in
\* the table
StoredAsSubmitted(table, u, date, f) ==
    \E k \in DOMAIN table :
        /\ AttendanceKey(table[k], f[1], TeacherOf(u), date)
        /\ table[k].present = (f[2] = "on")
        /\ table[k].remarks = f[3]

\* C11 as stated: after a storage failure partway through the loop of one
\* submission, the entries of the students processed before the failure are
\* stored with the new values.
C11_HalfUpdated ==
    \A p \in Procs :
        FailedPartway(p) =>
            \A k \in DOMAIN req[p].args.form :
                StoredAsSubmitted(attendance, req[p].user,
                                  strptime(req[p].args.date), req[p].args.form[k])

\* C11 as the code behaves: the roster upsert is all-or-nothing.  A step in
\* which a submission fails leaves the attendance table as it was, and the
\* table changes only in the step that commits a submission, which then holds
\* the submitted entry of every student of the roster.
C11_AllOrNothing ==
    [][\A p \in Procs :
        /\ (pc[p] \in {"mark_lookup", "mark_commit"} /\ pc'[p] = "done"
                /\ resp'[p] = server_error)
            => attendance' = attendance
        /\ (pc[p] \in {"mark_lookup", "mark_commit"} /\ attendance' # attendance)
            => /\ pc[p] = "mark_commit"
               /\ pc'[p] = "done"
               /\ resp'[p].kind = "redirect"
               /\ Len(req'[p].args.form) = Len(loc[p].students)
               /\ \A k \in DOMAIN req'[p].args.form :
                    StoredAsSubmitted(attendance', req'[p].user,
                                      strptime(req'[p].args.date),
                                      req'[p].args.form[k])]_vars

\* a submission failed after the first of the two students of its roster, whose
\* submitted entry is not in the table
C11_Witness ==
    \E p \in Procs :
        /\ FailedPartway(p)
        /\ Len(req[p].args.form) = 1
        /\ ~StoredAsSubmitted(attendance, req[p].user,
                              strptime(req[p].args.date), req[p].args.form[1])

(***************************************************************************)
(* The reach of a teacher's writes.                                        *)
(***************************************************************************)
\* student_id is an existing student whose class label is the department of
\* the teacher teacher_id
InRosterOf(student_id, teacher_id) ==
    /\ student_id \in DOMAIN students
    /\ teacher_id \in DOMAIN teachers
    /\ students[student_id].class_name = teachers[teacher_id].department

\* C12: every attendance entry written by mark-attendance and every progress
\* entry inserted by update-progress is of an existing student whose class
\* label equals the acting teacher's department, and carries the acting
\* teacher's id.
C12_OwnRoster ==
    /\ \A k \in DOMAIN attendance :
            InRosterOf(attendance[k].student_id, attendance[k].teacher_id)
    /\ \A k \in DOMAIN progress :
            InRosterOf(progress[k].student_id, progress[k].teacher_id)
    /\ \A p \in Procs :
            /\ Marked(p) =>
                    \A k \in DOMAIN req[p].args.form :
                        StoredAsSubmitted(attendance, req[p].user,
                                          strptime(req[p].args.date),
                                          req[p].args.form[k])
            /\ (Done(p, "update_progress") /\ resp[p].kind = "redirect"
                    /\ resp[p].to = "update_progress")
                => progress[Len(progress)].teacher_id = TeacherOf(req[p].user)

(***************************************************************************)
(* The progress chart.                                                     *)
(***************************************************************************)
\* the progress entries of a student in ascending date order
ByDateOf(student_id) ==
    OrderByDate(progress,
        Matching(progress,
                 [id \in DOMAIN progress |-> progress[id].student_id = student_id], 1),
        1, FALSE, <<>>)

\* the last n of a list
LastOf(ids, n) ==
    IF Len(ids) <= n THEN ids ELSE SubSeq(ids, Len(ids) - n + 1, Len(ids))

\* C13: the progress chart-data endpoint returns the assignment labels and
\* the percentages of the 10 most recent progress entries of the student by
\* date, in ascending date order and of equal length; all entries when there
\* are 10 or fewer.
C13_LastTen ==
    \A p \in Procs :
        (Done(p, "progress_chart_data") /\ resp[p].kind = "json"
            /\ resp[p].status = 200)
        => LET recent == LastOf(ByDateOf(ByUser(students, req[p].user)), 10)
           IN  /\ Len(resp[p].data.labels) = Len(resp[p].data.data)
               /\ resp[p].data.labels =
                    [k \in DOMAIN recent |-> progress[recent[k]].assignment_name]
               /\ resp[p].data.data =
                    [k \in DOMAIN recent |-> progress[recent[k]].percentage]

====
